---- MODULE Spec2Model ----
(***************************************************************************)
(* Model of reactionGame.ino: a two-player reaction game.  The sketch is   *)
(* single-threaded; every blocking loop of the sketch is a program         *)
(* position (pc) and every pass through it is one action.  The two button  *)
(* pins are the environment: they may change level at any time.            *)
(***************************************************************************)
EXTENDS Integers, Sequences, FiniteSets, TLC

VARIABLES
    raw1, raw2,                 \* physical level of button1Pin / button2Pin
    lastButton1State, lastButton2State,
    button1Pressed, button2Pressed,
    player1Score, player2Score, roundCount, gameActive,
    leds,                       \* level of ledPins[0..2], indexed 1..numLeds
    pc,                         \* position of the single thread of control
    i,                          \* loop index of the countdown for-loop
    elapsed, delayTime,         \* millis() - startTime and delayTime, in polls
    button1State, button2State, \* locals holding debounceButton's result
    lcdTop, lcdBottom,          \* the two rows of the LCD
    serialLine,                 \* last game-event line written to Serial
    depth,                      \* number of active playRound frames
    roundsStarted,              \* history: rounds started since startNewGame
    outcome,                    \* history: outcome of the current round
    matchNo,                    \* history: matches started so far (saturating)
    steady1, steady2            \* history: number (saturating) of consecutive
                                \* debounceButton calls on the channel during
                                \* and between which the pin kept its level
                                \* and the owner left the channel alone

vars == <<raw1, raw2, lastButton1State, lastButton2State, button1Pressed,
          button2Pressed, player1Score, player2Score, roundCount, gameActive,
          leds, pc, i, elapsed, delayTime, button1State, button2State,
          lcdTop, lcdBottom, serialLine, depth, roundsStarted, outcome,
          matchNo, steady1, steady2>>

----------------------------------------------------------------------------
\* Program constants
numLeds == 3
maxRounds == 5
LOW == FALSE
HIGH == TRUE

\* Bounds of the model
MaxHold == 2        \* a hold of random(500, 2001) ms lasts 1..MaxHold polls
MaxMatches == 2     \* matchNo counts matches up to this value, then saturates
MaxCalls == 2       \* steady1, steady2 count calls up to this value

Saturate(n) == IF n > MaxCalls THEN MaxCalls ELSE n

HoldChoices == 1..MaxHold

Outcomes == {"Player1EarlyPress", "Player2EarlyPress",
             "Player1Reacted", "Player2Reacted"}

----------------------------------------------------------------------------
\* Pure helpers

\* "Round " + String(roundCount)
RoundMessage(k) ==
    <<"Round 1", "Round 2", "Round 3", "Round 4", "Round 5",
      "Round 6", "Round 7", "Round 8">>[k]

\* the second LCD row written by displayScores()
ScoreRow(p1, p2) == <<"P1:", p1, "P2:", p2>>

PromptRow == <<"Press both btns">>

\* variant: the comparisons are swapped
GameOverMessage_Swapped(p1, p2) ==
    IF p1 < p2 THEN "Game Over - Player 1 wins!"
    ELSE IF p2 < p1 THEN "Game Over - Player 2 wins!"
    ELSE "Game Over - It's a tie!"

\* the conditional expression of endGame()'s Serial.println
GameOverMessage(p1, p2) ==
    IF p1 > p2 THEN "Game Over - Player 1 wins!"
    ELSE IF p2 > p1 THEN "Game Over - Player 2 wins!"
    ELSE "Game Over - It's a tie!"

\* variant: a committed change assigns the flag, so a release clears it
debounceButton_FollowsLevel(reading1, reading2, lastState, pressedFlag) ==
    LET committed == (reading1 # lastState) /\ (reading2 # lastState)
        state     == IF committed THEN reading2 ELSE lastState
        flag      == IF committed THEN state = HIGH ELSE pressedFlag
    IN  [lastState |-> state, pressedFlag |-> flag, ret |-> flag]

\* variant: the first reading is committed without the second one
debounceButton_NoReread(reading1, reading2, lastState, pressedFlag) ==
    LET committed == reading1 # lastState
        state     == IF committed THEN reading1 ELSE lastState
        flag      == IF committed /\ state = HIGH THEN TRUE ELSE pressedFlag
    IN  [lastState |-> state, pressedFlag |-> flag, ret |-> flag]

\* variant: the flag is assigned on every call instead of only being set
debounceButton_Unlatched(reading1, reading2, lastState, pressedFlag) ==
    LET committed == (reading1 # lastState) /\ (reading2 # lastState)
        state     == IF committed THEN reading2 ELSE lastState
        flag      == committed /\ state = HIGH
    IN  [lastState |-> state, pressedFlag |-> flag, ret |-> flag]

\* debounceButton(pin, lastState, pressedFlag): reading1 is the first
\* digitalRead, reading2 the one after delay(debounceDelay) (only taken when
\* reading1 differs from lastState).
debounceButton(reading1, reading2, lastState, pressedFlag) ==
    LET committed == (reading1 # lastState) /\ (reading2 # lastState)
        state     == IF committed THEN reading2 ELSE lastState
        flag      == IF committed /\ state = HIGH THEN TRUE ELSE pressedFlag
    IN  [lastState |-> state, pressedFlag |-> flag, ret |-> flag]

\* variant: Player 2 is checked first
EarlyPressOutcome_P2First(b1, b2) ==
    IF b2 THEN "Player2EarlyPress"
    ELSE IF b1 THEN "Player1EarlyPress"
    ELSE "None"

\* the branch taken by the two ifs of the countdown poll
EarlyPressOutcome(b1, b2) ==
    IF b1 THEN "Player1EarlyPress"
    ELSE IF b2 THEN "Player2EarlyPress"
    ELSE "None"

\* variant: Player 2 is checked first
ReactionOutcome_P2First(b1, b2) ==
    IF b2 THEN "Player2Reacted"
    ELSE IF b1 THEN "Player1Reacted"
    ELSE "None"

\* the branch taken by the if / else if of the reaction poll
ReactionOutcome(b1, b2) ==
    IF b1 THEN "Player1Reacted"
    ELSE IF b2 THEN "Player2Reacted"
    ELSE "None"

\* variant: an early press by Player 1 also scores for Player 1
ScoreP1_AwardPresser(o, p1) ==
    IF o \in {"Player1EarlyPress", "Player2EarlyPress", "Player1Reacted"}
    THEN p1 + 1 ELSE p1

\* player1Score++ is executed in the branches "Player 2 Early" and
\* "Player 1 Won"
ScoreP1(o, p1) ==
    IF o \in {"Player2EarlyPress", "Player1Reacted"} THEN p1 + 1 ELSE p1

\* variant: the penalty for Player 1's early press is not scored
ScoreP2_NoPenalty(o, p2) ==
    IF o = "Player2Reacted" THEN p2 + 1 ELSE p2

\* player2Score++ is executed in the branches "Player 1 Early" and
\* "Player 2 Won"
ScoreP2(o, p2) ==
    IF o \in {"Player1EarlyPress", "Player2Reacted"} THEN p2 + 1 ELSE p2

\* the argument of updateDisplay in each branch
OutcomeLcd(o) ==
    CASE o = "Player1EarlyPress" -> "Player 1 Early"
      [] o = "Player2EarlyPress" -> "Player 2 Early"
      [] o = "Player1Reacted"    -> "Player 1 Won"
      [] o = "Player2Reacted"    -> "Player 2 Won"

\* the Serial line of each branch
OutcomeSerial(o) ==
    CASE o = "Player1EarlyPress" -> "Player 1 pressed too early - P2 wins round"
      [] o = "Player2EarlyPress" -> "Player 2 pressed too early - P1 wins round"
      [] o = "Player1Reacted"    -> "Player 1 wins round"
      [] o = "Player2Reacted"    -> "Player 2 wins round"

\* variant: the match ends one round early
RoundsOver_OneShort(rc) == rc >= maxRounds - 1

\* variant: > instead of >=
RoundsOver_OffByOne(rc) == rc > maxRounds

\* if (roundCount >= maxRounds) { endGame(); return; }
RoundsOver(rc) == rc >= maxRounds

AllLeds(level) == [k \in 1..numLeds |-> level]

----------------------------------------------------------------------------
\* setup() and the initializers of the globals
Init ==
    /\ raw1 = LOW /\ raw2 = LOW
    /\ lastButton1State = LOW /\ lastButton2State = LOW
    /\ button1Pressed = FALSE /\ button2Pressed = FALSE
    /\ player1Score = 0 /\ player2Score = 0 /\ roundCount = 0
    /\ gameActive = FALSE
    /\ leds = AllLeds(LOW)
    /\ pc = "loopB1"
    /\ i = 0 /\ elapsed = 0 /\ delayTime = 0
    /\ button1State = FALSE /\ button2State = FALSE
    /\ lcdTop = "Start Game" /\ lcdBottom = PromptRow
    /\ serialLine = "LCD Initialized: Start Game, Press both btns"
    /\ depth = 0 /\ roundsStarted = 0 /\ outcome = "None" /\ matchNo = 0
    /\ steady1 = 0 /\ steady2 = 0

gameVars == <<player1Score, player2Score, roundCount, gameActive>>
outVars  == <<leds, lcdTop, lcdBottom, serialLine>>
loopVars == <<i, elapsed, delayTime>>
histVars == <<depth, roundsStarted, outcome, matchNo>>
chan1    == <<lastButton1State, button1Pressed>>
chan2    == <<lastButton2State, button2Pressed>>

----------------------------------------------------------------------------
\* Environment: a player presses or releases a button
Button1Change ==
    /\ raw1' = ~raw1
    /\ steady1' = 0
    /\ UNCHANGED <<raw2, chan1, chan2, gameVars, outVars, pc, loopVars,
                   button1State, button2State, histVars, steady2>>

Button2Change ==
    /\ raw2' = ~raw2
    /\ steady2' = 0
    /\ UNCHANGED <<raw1, chan1, chan2, gameVars, outVars, pc, loopVars,
                   button1State, button2State, histVars, steady1>>

----------------------------------------------------------------------------
\* One call  buttonNState = debounceButton(buttonNPin, lastButtonNState,
\* buttonNPressed).  The pin may change level during delay(debounceDelay).
SampleButton1(from, to) ==
    /\ pc = from
    /\ \E reread \in BOOLEAN :
         /\ raw1' = IF raw1 # lastButton1State THEN reread ELSE raw1
         /\ LET d == debounceButton(raw1, reread, lastButton1State,
                                    button1Pressed)
            IN  /\ lastButton1State' = d.lastState
                /\ button1Pressed' = d.pressedFlag
                /\ button1State' = d.ret
    /\ steady1' = IF raw1' = raw1 THEN Saturate(steady1 + 1) ELSE 0
    /\ pc' = to
    /\ UNCHANGED <<raw2, chan2, gameVars, outVars, loopVars, button2State,
                   histVars, steady2>>

SampleButton2(from, to) ==
    /\ pc = from
    /\ \E reread \in BOOLEAN :
         /\ raw2' = IF raw2 # lastButton2State THEN reread ELSE raw2
         /\ LET d == debounceButton(raw2, reread, lastButton2State,
                                    button2Pressed)
            IN  /\ lastButton2State' = d.lastState
                /\ button2Pressed' = d.pressedFlag
                /\ button2State' = d.ret
    /\ steady2' = IF raw2' = raw2 THEN Saturate(steady2 + 1) ELSE 0
    /\ pc' = to
    /\ UNCHANGED <<raw1, chan1, gameVars, outVars, loopVars, button1State,
                   histVars, steady1>>

----------------------------------------------------------------------------
\* loop()
LoopSample1 == SampleButton1("loopB1", "loopB2")
LoopSample2 == SampleButton2("loopB2", "loopCheck")

\* if (!gameActive && button1State && button2State) { ... }
LoopCheck ==
    /\ pc = "loopCheck"
    /\ IF ~gameActive /\ button1State /\ button2State
       THEN /\ gameActive' = TRUE
            /\ serialLine' = "Both buttons pressed - Starting game"
            /\ button1Pressed' = FALSE /\ button2Pressed' = FALSE
            /\ lastButton1State' = LOW /\ lastButton2State' = LOW
            /\ steady1' = 0 /\ steady2' = 0
            /\ pc' = "waitRel1"
       ELSE /\ pc' = "loopB1"
            /\ UNCHANGED <<gameActive, serialLine, chan1, chan2,
                           steady1, steady2>>
    /\ button1State' = FALSE /\ button2State' = FALSE
    /\ UNCHANGED <<raw1, raw2, player1Score, player2Score, roundCount,
                   leds, lcdTop, lcdBottom, loopVars, histVars>>

\* while (digitalRead(button1Pin) == HIGH || digitalRead(button2Pin) == HIGH)
\*   delay(10);          -- left operand
WaitRelease1 ==
    /\ pc = "waitRel1"
    /\ pc' = IF raw1 = HIGH THEN "waitRel1" ELSE "waitRel2"
    /\ UNCHANGED <<raw1, raw2, chan1, chan2, gameVars, outVars, loopVars,
                   button1State, button2State, histVars, steady1, steady2>>

\* variant: the scores are not reset
startNewGame_KeepScores ==
    /\ roundCount' = 0
    /\ UNCHANGED <<player1Score, player2Score>>
    /\ button1Pressed' = FALSE /\ button2Pressed' = FALSE
    /\ lastButton1State' = LOW /\ lastButton2State' = LOW
    /\ steady1' = 0 /\ steady2' = 0
    /\ roundsStarted' = 0
    /\ matchNo' = IF matchNo < MaxMatches THEN matchNo + 1 ELSE matchNo
    /\ pc' = "playRound"

\* startNewGame() up to its call of playRound()
startNewGame ==
    /\ player1Score' = 0 /\ player2Score' = 0 /\ roundCount' = 0
    /\ button1Pressed' = FALSE /\ button2Pressed' = FALSE
    /\ lastButton1State' = LOW /\ lastButton2State' = LOW
    /\ steady1' = 0 /\ steady2' = 0
    /\ roundsStarted' = 0
    /\ matchNo' = IF matchNo < MaxMatches THEN matchNo + 1 ELSE matchNo
    /\ pc' = "playRound"

\* variant: the level of button 2 is not waited for
WaitRelease2_NoWait ==
    /\ pc = "waitRel2"
    /\ startNewGame
    /\ UNCHANGED <<raw1, raw2, gameActive, outVars, loopVars, button1State,
                   button2State, depth, outcome>>

\* right operand of the release loop; when it reads LOW too the loop ends
\* and startNewGame() is called
WaitRelease2 ==
    /\ pc = "waitRel2"
    /\ IF raw2 = HIGH
       THEN /\ pc' = "waitRel1"
            /\ UNCHANGED <<chan1, chan2, player1Score, player2Score,
                           roundCount, steady1, steady2, roundsStarted,
                           matchNo>>
       ELSE startNewGame
    /\ UNCHANGED <<raw1, raw2, gameActive, outVars, loopVars, button1State,
                   button2State, depth, outcome>>

----------------------------------------------------------------------------
\* playRound(): entry, the maxRounds test and the start of a round
PlayRoundEnter ==
    /\ pc = "playRound"
    /\ depth' = depth + 1
    /\ IF RoundsOver(roundCount)
       THEN /\ pc' = "endGame"
            /\ UNCHANGED <<roundCount, lcdTop, lcdBottom, serialLine, leds,
                           i, roundsStarted, outcome>>
       ELSE /\ roundCount' = roundCount + 1
            /\ lcdTop' = RoundMessage(roundCount + 1)
            /\ lcdBottom' = ScoreRow(player1Score, player2Score)
            /\ serialLine' = "Round started"
            /\ leds' = AllLeds(HIGH)
            /\ i' = 0
            /\ roundsStarted' = roundsStarted + 1
            /\ outcome' = "None"
            /\ pc' = "forLed"
    /\ UNCHANGED <<raw1, raw2, chan1, chan2, player1Score, player2Score,
                   gameActive, elapsed, delayTime, button1State,
                   button2State, matchNo, steady1, steady2>>

\* (i, startTime and delayTime are locals: they are reset to 0 where their
\* scope ends)
\* for (int i = 0; i < numLeds; i++) { startTime = millis();
\*                                     delayTime = random(500, 2001); ...
ForLed ==
    /\ pc = "forLed"
    /\ IF i < numLeds
       THEN /\ \E d \in HoldChoices : delayTime' = d
            /\ elapsed' = 0
            /\ pc' = "holdTest"
            /\ UNCHANGED i
       ELSE /\ pc' = "reactB1"
            /\ i' = 0 /\ elapsed' = 0 /\ delayTime' = 0
    /\ UNCHANGED <<raw1, raw2, chan1, chan2, gameVars, outVars,
                   button1State, button2State, histVars, steady1, steady2>>

\* variant: the LEDs are switched off from the last to the first
HoldTest_Reversed ==
    /\ pc = "holdTest"
    /\ IF elapsed < delayTime
       THEN /\ pc' = "holdB1"
            /\ UNCHANGED <<leds, i, serialLine>>
       ELSE /\ leds' = [leds EXCEPT ![numLeds - i] = LOW]
            /\ serialLine' = "LED turned off"
            /\ i' = i + 1
            /\ pc' = "forLed"
    /\ UNCHANGED <<raw1, raw2, chan1, chan2, gameVars, lcdTop, lcdBottom,
                   elapsed, delayTime, button1State, button2State, histVars,
                   steady1, steady2>>

\* while (millis() - startTime < delayTime) { ... }
\* digitalWrite(ledPins[i], LOW);
HoldTest ==
    /\ pc = "holdTest"
    /\ IF elapsed < delayTime
       THEN /\ pc' = "holdB1"
            /\ UNCHANGED <<leds, i, serialLine>>
       ELSE /\ leds' = [leds EXCEPT ![i + 1] = LOW]
            /\ serialLine' = "LED turned off"
            /\ i' = i + 1
            /\ pc' = "forLed"
    /\ UNCHANGED <<raw1, raw2, chan1, chan2, gameVars, lcdTop, lcdBottom,
                   elapsed, delayTime, button1State, button2State, histVars,
                   steady1, steady2>>

HoldSample1 == SampleButton1("holdB1", "holdB2")
HoldSample2 == SampleButton2("holdB2", "holdCheck")

\* variant: the hold timer does not advance between polls
HoldCheck_TimerRestarts ==
    /\ pc = "holdCheck"
    /\ LET o == EarlyPressOutcome(button1State, button2State)
       IN  IF o # "None"
           THEN /\ player1Score' = ScoreP1(o, player1Score)
                /\ player2Score' = ScoreP2(o, player2Score)
                /\ lcdTop' = OutcomeLcd(o)
                /\ lcdBottom' = ScoreRow(player1Score', player2Score')
                /\ serialLine' = OutcomeSerial(o)
                /\ outcome' = o
                /\ pc' = "earlyHold"
                /\ i' = 0 /\ elapsed' = 0 /\ delayTime' = 0
           ELSE /\ elapsed' = 0
                /\ pc' = "holdTest"
                /\ UNCHANGED <<player1Score, player2Score, lcdTop,
                               lcdBottom, serialLine, outcome, i,
                               delayTime>>
    /\ button1State' = FALSE /\ button2State' = FALSE
    /\ UNCHANGED <<raw1, raw2, chan1, chan2, roundCount, gameActive, leds,
                   depth, roundsStarted, matchNo, steady1, steady2>>

\* if (button1State) {...} if (button2State) {...} of the countdown, up to
\* the display of the penalty
HoldCheck ==
    /\ pc = "holdCheck"
    /\ LET o == EarlyPressOutcome(button1State, button2State)
       IN  IF o # "None"
           THEN /\ player1Score' = ScoreP1(o, player1Score)
                /\ player2Score' = ScoreP2(o, player2Score)
                /\ lcdTop' = OutcomeLcd(o)
                /\ lcdBottom' = ScoreRow(player1Score', player2Score')
                /\ serialLine' = OutcomeSerial(o)
                /\ outcome' = o
                /\ pc' = "earlyHold"
                /\ i' = 0 /\ elapsed' = 0 /\ delayTime' = 0
           ELSE /\ elapsed' = elapsed + 1
                /\ pc' = "holdTest"
                /\ UNCHANGED <<player1Score, player2Score, lcdTop,
                               lcdBottom, serialLine, outcome, i,
                               delayTime>>
    /\ button1State' = FALSE /\ button2State' = FALSE
    /\ UNCHANGED <<raw1, raw2, chan1, chan2, roundCount, gameActive, leds,
                   depth, roundsStarted, matchNo, steady1, steady2>>

\* variant: the last stable states are reset with the latches
ClearAndRecurse_ResetLast ==
    /\ button1Pressed' = FALSE /\ button2Pressed' = FALSE
    /\ lastButton1State' = LOW /\ lastButton2State' = LOW
    /\ steady1' = 0 /\ steady2' = 0
    /\ pc' = "playRound"
    /\ UNCHANGED <<raw1, raw2, gameVars, outVars, loopVars, button1State,
                   button2State, histVars>>

\* delay(2000); button1Pressed = false; button2Pressed = false; playRound();
ClearAndRecurse ==
    /\ button1Pressed' = FALSE /\ button2Pressed' = FALSE
    /\ steady1' = 0 /\ steady2' = 0
    /\ pc' = "playRound"
    /\ UNCHANGED <<raw1, raw2, lastButton1State, lastButton2State, gameVars,
                   outVars, loopVars, button1State, button2State, histVars>>

\* variant: the round is replayed, roundCount is decremented
EarlyHold_Replay ==
    /\ pc = "earlyHold"
    /\ button1Pressed' = FALSE /\ button2Pressed' = FALSE
    /\ steady1' = 0 /\ steady2' = 0
    /\ roundCount' = roundCount - 1
    /\ pc' = "playRound"
    /\ UNCHANGED <<raw1, raw2, lastButton1State, lastButton2State,
                   player1Score, player2Score, gameActive, outVars, loopVars,
                   button1State, button2State, histVars>>

EarlyHold ==
    /\ pc = "earlyHold"
    /\ ClearAndRecurse

----------------------------------------------------------------------------
\* reaction phase: while (!winnerDeclared) { ... }
ReactSample1 == SampleButton1("reactB1", "reactB2")
ReactSample2 == SampleButton2("reactB2", "reactCheck")

ReactCheck ==
    /\ pc = "reactCheck"
    /\ LET o == ReactionOutcome(button1State, button2State)
       IN  IF o # "None"
           THEN /\ player1Score' = ScoreP1(o, player1Score)
                /\ player2Score' = ScoreP2(o, player2Score)
                /\ lcdTop' = OutcomeLcd(o)
                /\ lcdBottom' = ScoreRow(player1Score', player2Score')
                /\ serialLine' = OutcomeSerial(o)
                /\ outcome' = o
                /\ pc' = "winHold"
           ELSE /\ pc' = "reactB1"
                /\ UNCHANGED <<player1Score, player2Score, lcdTop,
                               lcdBottom, serialLine, outcome>>
    /\ button1State' = FALSE /\ button2State' = FALSE
    /\ UNCHANGED <<raw1, raw2, chan1, chan2, roundCount, gameActive, leds,
                   loopVars, depth, roundsStarted, matchNo,
                   steady1, steady2>>

\* delay(2000); button1Pressed = false; button2Pressed = false; playRound();
WinHold ==
    /\ pc = "winHold"
    /\ ClearAndRecurse

----------------------------------------------------------------------------
\* endGame(): the final result, shown for delay(10000)
EndGameShow ==
    /\ pc = "endGame"
    /\ lcdTop' = "End Game"
    /\ lcdBottom' = ScoreRow(player1Score, player2Score)
    /\ serialLine' = GameOverMessage(player1Score, player2Score)
    /\ pc' = "endHold"
    /\ UNCHANGED <<raw1, raw2, chan1, chan2, gameVars, leds, loopVars,
                   button1State, button2State, histVars, steady1, steady2>>

\* endGame(): the reset after the delay; then endGame and every playRound
\* frame return (no statement follows the recursive calls), startNewGame
\* and loop() return and loop() is entered again
EndGameReset ==
    /\ pc = "endHold"
    /\ lcdTop' = "Start Game"
    /\ lcdBottom' = PromptRow
    /\ serialLine' = "Game reset - Press both buttons to start again"
    /\ gameActive' = FALSE
    /\ button1Pressed' = FALSE /\ button2Pressed' = FALSE
    /\ lastButton1State' = LOW /\ lastButton2State' = LOW
    /\ steady1' = 0 /\ steady2' = 0
    /\ depth' = 0
    /\ outcome' = "None"
    /\ pc' = "loopB1"
    /\ UNCHANGED <<raw1, raw2, player1Score, player2Score, roundCount, leds,
                   loopVars, button1State, button2State, roundsStarted,
                   matchNo>>

----------------------------------------------------------------------------
Next ==
    \/ Button1Change
    \/ Button2Change
    \/ LoopSample1
    \/ LoopSample2
    \/ LoopCheck
    \/ WaitRelease1
    \/ WaitRelease2
    \/ PlayRoundEnter
    \/ ForLed
    \/ HoldTest
    \/ HoldSample1
    \/ HoldSample2
    \/ HoldCheck
    \/ EarlyHold
    \/ ReactSample1
    \/ ReactSample2
    \/ ReactCheck
    \/ WinHold
    \/ EndGameShow
    \/ EndGameReset

\* the steps of the sketch (every action but the button changes)
Program ==
    \/ LoopSample1 \/ LoopSample2 \/ LoopCheck
    \/ WaitRelease1 \/ WaitRelease2
    \/ PlayRoundEnter \/ ForLed \/ HoldTest
    \/ HoldSample1 \/ HoldSample2 \/ HoldCheck \/ EarlyHold
    \/ ReactSample1 \/ ReactSample2 \/ ReactCheck \/ WinHold
    \/ EndGameShow \/ EndGameReset

\* a button held while the release loop reads it is released
Release1WhileWaiting == pc = "waitRel1" /\ raw1 = HIGH /\ Button1Change
Release2WhileWaiting == pc = "waitRel2" /\ raw2 = HIGH /\ Button2Change

\* the release loop reads a released button
ReleaseRead1 == WaitRelease1 /\ pc' = "waitRel2"
ReleaseRead2 == WaitRelease2 /\ pc' = "playRound"

\* a player works a button while the reaction loop polls it
PressWhileReacting ==
    \/ pc = "reactB1" /\ Button1Change
    \/ pc = "reactB2" /\ Button2Change

\* a reaction poll commits a changed level
ReactCommit ==
    \/ ReactSample1 /\ lastButton1State' # lastButton1State
    \/ ReactSample2 /\ lastButton2State' # lastButton2State

Spec == Init /\ [][Next]_vars

\* The sketch always runs.  The buttons are released after the start
\* press: a button held while the release loop reads it is released, and a
\* released button is read as released.  Some player works a button in every
\* reaction phase, and a changed level is committed by some poll.  The
\* release loop and the reaction loop are never active together, so their
\* conditions are paired.
FairSpec ==
    /\ Spec
    /\ WF_vars(Program)
    /\ WF_vars(Release1WhileWaiting)
    /\ SF_vars(ReleaseRead1)
    /\ SF_vars(Release2WhileWaiting \/ PressWhileReacting)
    /\ SF_vars(ReleaseRead2 \/ ReactCommit)

----------------------------------------------------------------------------
\* Program positions
CountdownPcs == {"forLed", "holdTest", "holdB1", "holdB2", "holdCheck"}
ReactionPcs  == {"reactB1", "reactB2", "reactCheck"}
RoundPcs     == CountdownPcs \cup ReactionPcs
ResultPcs    == {"earlyHold", "winHold"}

Sum == player1Score + player2Score

----------------------------------------------------------------------------
\* the step that decides a round adds one to exactly one score
DecideStep ==
    outcome' # outcome /\ outcome' # "None" =>
        /\ outcome = "None" /\ outcome' \in Outcomes
        /\ \/ player1Score' = player1Score + 1 /\ player2Score' = player2Score
           \/ player2Score' = player2Score + 1 /\ player1Score' = player1Score

RoundAccounting ==
    /\ pc \in RoundPcs => outcome = "None" /\ Sum = roundCount - 1
    /\ pc \in ResultPcs => outcome \in Outcomes
    /\ pc \notin RoundPcs => Sum = roundCount

\* C1: every started round produces exactly one of the four outcomes and
\* awards exactly one point to exactly one player: while a round is in
\* progress no outcome exists and the scores add up to roundCount - 1, once
\* it is decided the outcome is one of the four and the scores add up to
\* roundCount, and the step that decides it adds one to one score only.
C1_OneOutcomeOnePoint == []RoundAccounting /\ [][DecideStep]_vars

C1_Witness ==
    /\ pc = "earlyHold" /\ roundCount = 4 /\ outcome = "Player1EarlyPress"
    /\ player1Score = 2 /\ player2Score = 2

\* C2: endGame is entered only with roundCount = maxRounds and exactly
\* maxRounds rounds started since startNewGame.
C2_ExactlyMaxRounds ==
    pc \in {"endGame", "endHold"} =>
        roundCount = maxRounds /\ roundsStarted = maxRounds

C2_Witness ==
    pc = "endGame" /\ outcome = "Player2EarlyPress" /\ player1Score = 4

StartStep ==
    ~gameActive /\ gameActive' =>
        lastButton1State = HIGH /\ lastButton2State = HIGH

\* C3: the match starts only while both buttons' debounced state reads
\* pressed at the same time.
C3_StartNeedsBothPressedLive == [][StartStep]_vars

EarlyStepAsStated ==
    pc = "holdCheck" =>
        /\ button1Pressed =>
              /\ outcome' = "Player1EarlyPress"
              /\ player2Score' = player2Score + 1
              /\ player1Score' = player1Score
        /\ button2Pressed =>
              /\ outcome' = "Player2EarlyPress"
              /\ player1Score' = player1Score + 1
              /\ player2Score' = player2Score

\* C4 as stated: whichever latch is set at a countdown poll, that player
\* gets the EarlyPress outcome and the opponent, not the presser, the point.
C4_Original == [][pc' # pc => EarlyStepAsStated]_vars

EarlyStep ==
    pc = "holdCheck" /\ pc' # pc =>
        /\ button1Pressed =>
              /\ outcome' = "Player1EarlyPress"
              /\ player2Score' = player2Score + 1
              /\ player1Score' = player1Score
              /\ pc' = "earlyHold"
        /\ button2Pressed /\ ~button1Pressed =>
              /\ outcome' = "Player2EarlyPress"
              /\ player1Score' = player1Score + 1
              /\ player2Score' = player2Score
              /\ pc' = "earlyHold"

EarlyHoldStep ==
    pc = "earlyHold" /\ pc' # pc =>
        /\ pc' = "playRound"
        /\ ~button1Pressed' /\ ~button2Pressed'
        /\ player1Score' = player1Score
        /\ player2Score' = player2Score

EarlyRoundAbandoned ==
    /\ pc = "playRound" => ~button1Pressed /\ ~button2Pressed
    /\ pc \in ReactionPcs \cup {"winHold"} =>
           outcome \notin {"Player1EarlyPress", "Player2EarlyPress"}

\* C4 amended: a latch set at a countdown poll ends the round at once with
\* the EarlyPress outcome of Player 1 if latch 1 is set and of Player 2 if
\* only latch 2 is set; the other player alone gains one point, both latches
\* are cleared before the next round starts and the reaction phase of that
\* round is never entered.
C4_EarlyPressPenalty ==
    [][EarlyStep]_vars /\ [][EarlyHoldStep]_vars /\ []EarlyRoundAbandoned

C4_Witness ==
    /\ pc = "playRound" /\ outcome = "Player2EarlyPress"
    /\ player1Score = 1 /\ player2Score = 0 /\ roundCount = 1

ReactionStep ==
    pc = "reactCheck" /\ pc' # pc =>
        /\ button1Pressed =>
              /\ outcome' = "Player1Reacted" /\ pc' = "winHold"
              /\ player1Score' = player1Score + 1
              /\ player2Score' = player2Score
        /\ button2Pressed /\ ~button1Pressed =>
              /\ outcome' = "Player2Reacted" /\ pc' = "winHold"
              /\ player2Score' = player2Score + 1
              /\ player1Score' = player1Score
        /\ ~button1Pressed /\ ~button2Pressed =>
              /\ outcome' = "None" /\ pc' = "reactB1"
              /\ player1Score' = player1Score
              /\ player2Score' = player2Score

\* C5: the first reaction poll at which a latch is set ends the round with
\* one winner: the only player latched, or Player 1 if both are latched; a
\* poll at which none is set leaves the scores alone and polls again.
C5_ReactionWinner == [][ReactionStep]_vars

C5_Witness ==
    /\ pc = "winHold" /\ button1Pressed /\ button2Pressed
    /\ outcome = "Player1Reacted" /\ player1Score = 1 /\ player2Score = 0

BothPressedStep ==
    pc = "loopCheck" /\ pc' # pc /\ ~gameActive
        /\ button1State /\ button2State => gameActive'

RoundOneFromZero ==
    pc = "forLed" /\ i = 0 /\ roundsStarted = 1 =>
        /\ gameActive
        /\ player1Score = 0 /\ player2Score = 0 /\ roundCount = 1

\* C6: with both buttons seen pressed while Idle the system becomes Active,
\* and when round 1 of any match begins the scores are 0-0 and roundCount
\* is 1.
C6_MatchStartsFromZero == [][BothPressedStep]_vars /\ []RoundOneFromZero

C6_Witness ==
    pc = "forLed" /\ i = 0 /\ roundsStarted = 1 /\ matchNo = 2

ReleaseStep ==
    /\ pc' = "playRound" /\ roundsStarted' = 0 /\ pc' # pc =>
           pc = "waitRel2" /\ raw2 = LOW /\ gameActive
    /\ pc' = "waitRel2" /\ pc' # pc => pc = "waitRel1" /\ raw1 = LOW

RoundOneClean ==
    gameActive /\ (\/ pc = "playRound" /\ roundsStarted = 0
                   \/ pc = "forLed" /\ roundsStarted = 1 /\ i = 0) =>
        /\ ~button1Pressed /\ ~button2Pressed
        /\ lastButton1State = LOW /\ lastButton2State = LOW

\* C7: round 1 is not started before button 1 and then button 2 were read
\* released, and when its countdown begins both latches are false and both
\* last stable states are LOW.
C7_StartPressNotCarried == [][ReleaseStep]_vars /\ []RoundOneClean

C7_Witness ==
    /\ pc = "holdB1" /\ roundsStarted = 1 /\ i = 0 /\ elapsed = 0
    /\ ~button1Pressed /\ ~button2Pressed /\ matchNo = 1

\* C8: whenever the controller is Idle all indicator outputs are off.
C8_IdleLedsOff ==
    ~gameActive => \A k \in 1..numLeds : leds[k] = LOW

LedOffStep ==
    \A k \in 1..numLeds :
        leds[k] = HIGH /\ leds'[k] = LOW =>
            /\ pc = "holdTest" /\ i = k - 1
            /\ elapsed >= delayTime /\ elapsed >= 1
            /\ outcome = "None"
            /\ ~button1Pressed /\ ~button2Pressed

LedOrder ==
    /\ \A k \in 1..numLeds :
          leds[k] = LOW => \A j \in 1..k : leds[j] = LOW
    /\ pc \in ReactionPcs => leds = AllLeds(LOW)

\* C9: an indicator goes off only at the end of its own hold, with no latch
\* set; indicators go off in the order 1, 2, 3; the reaction phase is
\* entered only with all of them off.
C9_IndicatorSequencing == [][LedOffStep]_vars /\ []LedOrder

C9_Witness ==
    /\ pc = "forLed" /\ i = 2
    /\ leds[1] = LOW /\ leds[2] = LOW /\ leds[3] = HIGH

RepeatedSampleStep ==
    /\ pc \in {"loopB1", "holdB1", "reactB1"} /\ pc' # pc
          /\ steady1 >= 1 /\ raw1' = raw1 =>
           /\ lastButton1State' = lastButton1State
           /\ button1Pressed' = button1Pressed
           /\ button1State' = button1Pressed
    /\ pc \in {"loopB2", "holdB2", "reactB2"} /\ pc' # pc
          /\ steady2 >= 1 /\ raw2' = raw2 =>
           /\ lastButton2State' = lastButton2State
           /\ button2Pressed' = button2Pressed
           /\ button2State' = button2Pressed

\* C10: a debounceButton call that follows another one on the same channel,
\* with the pin at the same level throughout and the channel untouched in
\* between, changes neither lastState nor the latch and returns the latch.
C10_DebounceIdempotent == [][RepeatedSampleStep]_vars

C10_Witness ==
    /\ steady1 = 2 /\ button1Pressed /\ lastButton1State = HIGH
    /\ steady2 = 2 /\ ~button2Pressed /\ lastButton2State = LOW

----------------------------------------------------------------------------
\* steps that are one call of debounceButton on channel 1 / channel 2
Sample1Pcs == {"loopB1", "holdB1", "reactB1"}
Sample2Pcs == {"loopB2", "holdB2", "reactB2"}
IsSample1 == pc \in Sample1Pcs /\ pc' # pc
IsSample2 == pc \in Sample2Pcs /\ pc' # pc

\* positions at which loop, startNewGame, playRound and endGame clear
ClearPcs == {"loopCheck", "waitRel2", "earlyHold", "winHold", "endHold"}

LatchClearStep ==
    /\ IsSample1 => ~(button1Pressed /\ ~button1Pressed')
    /\ IsSample2 => ~(button2Pressed /\ ~button2Pressed')
    /\ button1Pressed /\ ~button1Pressed' => pc \in ClearPcs /\ pc' # pc
    /\ button2Pressed /\ ~button2Pressed' => pc \in ClearPcs /\ pc' # pc

\* C11: no call of debounceButton changes a pressed flag from true to
\* false; a flag goes from true to false only in the clearing statements of
\* loop, startNewGame, playRound and endGame.
C11_LatchClearedByOwnerOnly == [][LatchClearStep]_vars

C11_Witness ==
    /\ pc = "loopB2" /\ button1Pressed /\ lastButton1State = LOW
    /\ raw1 = LOW /\ steady1 >= 1

WinnerText ==
    IF player1Score > player2Score THEN "Player 1 wins!"
    ELSE IF player2Score > player1Score THEN "Player 2 wins!"
    ELSE "It's a tie!"

\* C12 as stated: in the End phase the display shows the final result
\* "Player 1 wins!", "Player 2 wins!" or the tie.
C12_Original ==
    pc = "endHold" => lcdTop = WinnerText

\* C12 amended: in the End phase the display shows "End Game" and the final
\* scores, and the final result line written to the diagnostic stream is
\* "Player 1 wins!" exactly when player1Score > player2Score, "Player 2
\* wins!" exactly when player2Score > player1Score and the tie exactly when
\* the scores are equal.
C12_FinalResult ==
    pc = "endHold" =>
        /\ lcdTop = "End Game"
        /\ lcdBottom = ScoreRow(player1Score, player2Score)
        /\ (serialLine = "Game Over - Player 1 wins!")
               <=> (player1Score > player2Score)
        /\ (serialLine = "Game Over - Player 2 wins!")
               <=> (player2Score > player1Score)
        /\ (serialLine = "Game Over - It's a tie!")
               <=> (player1Score = player2Score)

C12_Witness ==
    /\ pc = "endHold" /\ player1Score = 3 /\ player2Score = 2
    /\ serialLine = "Game Over - Player 1 wins!"

\* C13: with maxRounds = 5 the scores differ whenever endGame evaluates the
\* result.
C13_NoTie ==
    pc \in {"endGame", "endHold"} => player1Score # player2Score

C13_Witness ==
    pc = "endGame" /\ player1Score = 2 /\ player2Score = 3

MatchPcs == {"playRound"} \cup RoundPcs \cup ResultPcs

RoundCountStep ==
    /\ pc \in {"holdCheck", "earlyHold"} => roundCount' = roundCount
    /\ pc \in MatchPcs /\ roundCount' # roundCount =>
           /\ pc = "playRound" /\ pc' = "forLed"
           /\ roundCount' = roundCount + 1
    /\ pc = "playRound" /\ pc' = "forLed"
          /\ outcome \in {"Player1EarlyPress", "Player2EarlyPress"} =>
           /\ roundCount' = roundCount + 1
           /\ roundsStarted' = roundsStarted + 1

\* C14: the early-press handling never changes roundCount; during a match
\* roundCount changes only by +1 at the start of a round, so the round that
\* follows an early press in round k is round k + 1 and the early-press
\* round is one of the rounds counted (roundCount = rounds started).
C14_RoundCountOnEarlyPress ==
    [][RoundCountStep]_vars /\ [](pc \in MatchPcs => roundCount = roundsStarted)

C14_Witness ==
    /\ pc = "playRound" /\ outcome = "Player1EarlyPress"
    /\ roundCount = 2 /\ roundsStarted = 2 /\ player2Score = 2

CommitStep ==
    /\ IsSample1 =>
         /\ lastButton1State' # lastButton1State =>
                raw1 # lastButton1State /\ raw1' # lastButton1State
         /\ raw1 # lastButton1State /\ raw1' = lastButton1State =>
                /\ lastButton1State' = lastButton1State
                /\ button1Pressed' = button1Pressed
         /\ ~button1Pressed /\ button1Pressed' =>
                lastButton1State = LOW /\ lastButton1State' = HIGH
         /\ lastButton1State = HIGH /\ lastButton1State' = LOW =>
                button1Pressed' = button1Pressed
         /\ lastButton1State = LOW /\ lastButton1State' = HIGH =>
                button1Pressed'
    /\ IsSample2 =>
         /\ lastButton2State' # lastButton2State =>
                raw2 # lastButton2State /\ raw2' # lastButton2State
         /\ raw2 # lastButton2State /\ raw2' = lastButton2State =>
                /\ lastButton2State' = lastButton2State
                /\ button2Pressed' = button2Pressed
         /\ ~button2Pressed /\ button2Pressed' =>
                lastButton2State = LOW /\ lastButton2State' = HIGH
         /\ lastButton2State = HIGH /\ lastButton2State' = LOW =>
                button2Pressed' = button2Pressed
         /\ lastButton2State = LOW /\ lastButton2State' = HIGH =>
                button2Pressed'

\* C15: debounceButton changes lastState only when the first read and the
\* re-read both differ from it; a reading that has reverted by the re-read
\* commits nothing and leaves the latch alone; the latch is set on a
\* committed LOW to HIGH change and only there, never on HIGH to LOW.
C15_DebounceCommitRule == [][CommitStep]_vars

C15_Witness ==
    /\ pc = "reactB2" /\ button1Pressed /\ button1State
    /\ lastButton1State = HIGH /\ raw1 = HIGH /\ steady1 = 1

\* C17: 0 <= roundCount <= maxRounds, both scores are at least 0 and
\* neither exceeds roundCount.
C17_MatchStateRange ==
    /\ 0 <= roundCount /\ roundCount <= maxRounds
    /\ 0 <= player1Score /\ player1Score <= roundCount
    /\ 0 <= player2Score /\ player2Score <= roundCount

C17_Witness ==
    /\ roundCount = maxRounds /\ player1Score = maxRounds
    /\ player2Score = 0 /\ pc = "winHold"

\* C18: the number of nested playRound invocations grows by one per round,
\* is at most maxRounds + 1 in every state, and is 0 again whenever the
\* match is back in Idle, also in later matches.
C18_CallDepthBounded ==
    /\ depth <= maxRounds + 1
    /\ ~gameActive => depth = 0
    /\ pc \in RoundPcs \cup ResultPcs => depth = roundCount
    /\ pc \in {"endGame", "endHold"} => depth = maxRounds + 1

C18_Witness ==
    pc = "endHold" /\ depth = maxRounds + 1 /\ matchNo = 2

HeldButtonStep ==
    /\ IsSample1 /\ lastButton1State = HIGH /\ raw1 = HIGH =>
           button1Pressed' = button1Pressed
    /\ IsSample2 /\ lastButton2State = HIGH /\ raw2 = HIGH =>
           button2Pressed' = button2Pressed
    /\ pc \in MatchPcs /\ lastButton1State = HIGH
          /\ lastButton1State' = LOW => IsSample1 /\ raw1 = LOW
    /\ pc \in MatchPcs /\ lastButton2State = HIGH
          /\ lastButton2State' = LOW => IsSample2 /\ raw2 = LOW
    /\ pc \in MatchPcs /\ ~button1Pressed /\ button1Pressed' =>
           IsSample1 /\ lastButton1State = LOW /\ raw1 = HIGH
    /\ pc \in MatchPcs /\ ~button2Pressed /\ button2Pressed' =>
           IsSample2 /\ lastButton2State = LOW /\ raw2 = HIGH

\* C19: during a match, a channel whose press is committed (lastState HIGH)
\* and whose button is still held does not get its latch set by a sample;
\* lastState returns to LOW only by a sample that reads the button
\* released, and the latch is set only by a sample that reads HIGH while
\* lastState is LOW.
C19_ConsumedPressNotReused == [][HeldButtonStep]_vars

C19_Witness ==
    /\ pc \in {"holdB2", "reactB2"} /\ roundCount = 2
    /\ lastButton1State = HIGH /\ raw1 = HIGH /\ ~button1Pressed
    /\ steady1 = 2 /\ outcome = "None" /\ player1Score = 1

TieBreakStep ==
    /\ pc = "holdCheck" /\ pc' # pc /\ button1Pressed /\ button2Pressed =>
           /\ outcome' = "Player1EarlyPress"
           /\ player2Score' = player2Score + 1
           /\ player1Score' = player1Score
    /\ pc = "reactCheck" /\ pc' # pc /\ button1Pressed /\ button2Pressed =>
           /\ player1Score' = player1Score + 1
           /\ player2Score' = player2Score

\* C20: when both latches are set at the same countdown poll Player 1 is
\* the early presser: Player 2 gains one point and Player 1 none, whereas
\* at a reaction poll with both latches set Player 1 gains the point.
C20_CountdownTieBreak == [][TieBreakStep]_vars

C20_Witness ==
    /\ pc = "earlyHold" /\ button1Pressed /\ button2Pressed
    /\ outcome = "Player1EarlyPress" /\ player1Score = 0 /\ player2Score = 1

\* C16: every started match returns to Idle, given that the buttons are
\* released after the start press and that some player presses in every
\* reaction phase; every countdown ends, whatever the buttons do.
C16_MatchTerminates ==
    /\ gameActive ~> ~gameActive
    /\ (pc \in CountdownPcs) ~> (pc \notin CountdownPcs)

C16_Witness ==
    /\ ~gameActive /\ pc = "loopB1" /\ matchNo = 1 /\ roundCount = maxRounds
    /\ lcdTop = "Start Game"
====
